---- MODULE Spec2Model ----
(***************************************************************************)
(* Enrollment backend (src/backend/server.js, the mongoose-backed server): *)
(* the POST /send intake pipeline, its alias POST /api/route, the Student  *)
(* collection with its schema rules and unique indexes, and the mail       *)
(* dispatch that follows a save.                                           *)
(*                                                                         *)
(* Strings are sequences of one-character strings, so that trimming,       *)
(* stripping and lower-casing are computed, not assumed.  Time is counted  *)
(* in units of six hours since the epoch: 365.25 days are 1461 units, and  *)
(* floor(floor(x / u) / 1461) = floor(x / (1461 * u)), so the age the code *)
(* computes from milliseconds is the age computed here from units.         *)
(*                                                                         *)
(* The model covers the requests the rate limiter admits (fewer than five  *)
(* per window).                                                            *)
(***************************************************************************)
EXTENDS Integers, Sequences, FiniteSets, TLC

\* Number of requests in view at once.
NReq == 2
\* Number of clock steps (six hours each) in one run.
MaxTick == 1

(***************************************************************************)
(* Characters and strings                                                  *)
(***************************************************************************)
Upper == <<"A","B","C","D","E","F","G","H","I","J","K","L","M",
           "N","O","P","Q","R","S","T","U","V","W","X","Y","Z">>
Lower == <<"a","b","c","d","e","f","g","h","i","j","k","l","m",
           "n","o","p","q","r","s","t","u","v","w","x","y","z">>
Digits == <<"0","1","2","3","4","5","6","7","8","9">>

Range(s) == { s[i] : i \in 1..Len(s) }

IsUpper(c) == c \in Range(Upper)
IsLower(c) == c \in Range(Lower)
IsDigit(c) == c \in Range(Digits)
IsLetter(c) == IsUpper(c) \/ IsLower(c)
\* \s of the regular expressions, and what String.prototype.trim removes
IsSpace(c) == c \in {" ", "\t", "\n", "\r"}

IndexIn(c, s) == CHOOSE i \in 1..Len(s) : s[i] = c
DigitVal(c) == IndexIn(c, Digits) - 1

\* String.prototype.toLowerCase
ToLowerChar(c) == IF IsUpper(c) THEN Lower[IndexIn(c, Upper)] ELSE c
toLowerCase(s) == [i \in 1..Len(s) |-> ToLowerChar(s[i])]

\* String.prototype.trim
trim(s) ==
  LET keep == { i \in 1..Len(s) : ~IsSpace(s[i]) }
  IN IF keep = {} THEN <<>>
     ELSE LET lo == CHOOSE i \in keep : \A j \in keep : i <= j
              hi == CHOOSE i \in keep : \A j \in keep : j <= i
          IN SubSeq(s, lo, hi)

\* s.replace(/[set]/g, ''): every character of the set removed
RemoveChars(s, set) == SelectSeq(s, LAMBDA c : c \notin set)

\* s.replace(/\s/g, '')
RemoveSpaces(s) == SelectSeq(s, LAMBDA c : ~IsSpace(c))

\* the decimal value of a string of digits
DecimalValue(s) ==
  LET value[i \in 0..Len(s)] ==
        IF i = 0 THEN 0 ELSE 10 * value[i - 1] + DigitVal(s[i])
  IN value[Len(s)]

AllDigits(s) == \A i \in 1..Len(s) : IsDigit(s[i])

(***************************************************************************)
(* JSON values of a request body: a string, a number, or no value          *)
(***************************************************************************)
Str(s) == [t |-> "str", s |-> s]
\* a number, held by its decimal digits
Num(d) == [t |-> "num", s |-> d]
Undef == [t |-> "undef", s |-> <<>>]

\* JavaScript truthiness: "" , 0 and undefined are falsy
Truthy(v) ==
  CASE v.t = "str" -> v.s # <<>>
    [] v.t = "num" -> DecimalValue(v.s) # 0
    [] OTHER -> FALSE

\* value.toString()
ToStringOf(v) == v.s

(***************************************************************************)
(* sanitizeInput                                                           *)
(***************************************************************************)
UnsafeChars == {"<", ">", "\"", "'"}

sanitizeInput(input) ==
  IF input.t = "str" THEN Str(RemoveChars(trim(input.s), UnsafeChars))
  ELSE input

(***************************************************************************)
(* validator.isEmail (default options), by its grammar: one "@", a local   *)
(* part of dot-separated atoms, a domain of at least two labels whose last *)
(* label is alphabetic and at least two characters long.  On anything but  *)
(* a string the library throws a TypeError.                                *)
(***************************************************************************)
AtomChars == {"!", "#", "$", "%", "&", "*", "+", "/", "=", "?", "^", "_",
              "{", "|", "}", "~", "-"}

DotSeparated(s, ok(_)) ==
  /\ s # <<>>
  /\ s[1] # "." /\ s[Len(s)] # "."
  /\ \A i \in 1..Len(s) : s[i] = "." \/ ok(s[i])
  /\ \A i \in 1..(Len(s) - 1) : ~(s[i] = "." /\ s[i + 1] = ".")

LocalChar(c) == IsLetter(c) \/ IsDigit(c) \/ c \in AtomChars
DomainChar(c) == IsLetter(c) \/ IsDigit(c) \/ c = "-"

isEmail(s) ==
  LET ats == { i \in 1..Len(s) : s[i] = "@" }
  IN /\ Cardinality(ats) = 1
     /\ LET at == CHOOSE i \in ats : TRUE
            local == SubSeq(s, 1, at - 1)
            domain == SubSeq(s, at + 1, Len(s))
            dots == { i \in 1..Len(domain) : domain[i] = "." }
        IN /\ DotSeparated(local, LocalChar)
           /\ Len(local) <= 64
           /\ DotSeparated(domain, DomainChar)
           /\ dots # {}
           /\ LET last == CHOOSE i \in dots : \A j \in dots : j <= i
                  tld == SubSeq(domain, last + 1, Len(domain))
              IN Len(tld) >= 2 /\ \A i \in 1..Len(tld) : IsLetter(tld[i])

(***************************************************************************)
(* The phone pattern, tested on the value with its whitespace removed: ten *)
(* or more characters, each a digit, whitespace, "-", "+", "(" or ")".     *)
(***************************************************************************)
PhoneMinLength == 10
PhoneChars == {"-", "+", "(", ")"}

PhoneOk(s) ==
  LET v == RemoveSpaces(s)
  IN /\ Len(v) >= PhoneMinLength
     /\ \A i \in 1..Len(v) : IsDigit(v[i]) \/ IsSpace(v[i]) \/ v[i] \in PhoneChars

(***************************************************************************)
(* Dates.  new Date(string) is modelled on the date-only ISO form          *)
(* YYYY-MM-DD (midnight UTC); any other string gives an invalid date.      *)
(***************************************************************************)
UnitsPerDay == 4
\* 365.25 * 24 * 60 * 60 * 1000 milliseconds, in units of six hours
UnitsPerYear == 1461
MsPerUnit == 21600000

NaN == [nan |-> TRUE, t |-> 0]
Time(t) == [nan |-> FALSE, t |-> t]

\* days from 1970-01-01 to the civil date y-m-d (proleptic Gregorian)
DaysFromCivil(y, m, d) ==
  LET yy == IF m <= 2 THEN y - 1 ELSE y
      era == yy \div 400
      yoe == yy - era * 400
      mp == IF m > 2 THEN m - 3 ELSE m + 9
      doy == (153 * mp + 2) \div 5 + d - 1
      doe == yoe * 365 + yoe \div 4 - yoe \div 100 + doy
  IN era * 146097 + doe - 719468

ParseDate(s) ==
  IF /\ Len(s) = 10
     /\ s[5] = "-" /\ s[8] = "-"
     /\ AllDigits(SubSeq(s, 1, 4)) /\ AllDigits(SubSeq(s, 6, 7))
     /\ AllDigits(SubSeq(s, 9, 10))
  THEN LET y == DecimalValue(SubSeq(s, 1, 4))
           m == DecimalValue(SubSeq(s, 6, 7))
           d == DecimalValue(SubSeq(s, 9, 10))
       IN IF m \in 1..12 /\ d \in 1..31
          THEN Time(UnitsPerDay * DaysFromCivil(y, m, d))
          ELSE NaN
  ELSE NaN

\* new Date(value)
NewDate(v) ==
  CASE v.t = "str" -> ParseDate(v.s)
    [] v.t = "num" -> Time(DecimalValue(v.s) \div MsPerUnit)
    [] OTHER -> NaN

\* Math.floor((now - birthDate) / (365.25 * 24 * 60 * 60 * 1000)); NaN when
\* the date is invalid
AgeAt(time, birth) ==
  IF birth.nan THEN NaN ELSE Time((time - birth.t) \div UnitsPerYear)

MinAge == 16
MaxAge == 100

\* age < 16 || age > 100: both comparisons are false on NaN
AgeOutOfBounds_Inclusive(age) ==
  ~age.nan /\ (age.t <= MinAge \/ age.t >= MaxAge)

AgeOutOfBounds(age) ==
  ~age.nan /\ (age.t < MinAge \/ age.t > MaxAge)

(***************************************************************************)
(* validateEnrollmentData                                                  *)
(***************************************************************************)
RequiredFields ==
  <<"firstName", "lastName", "email", "phone", "idnumber", "dateOfBirth",
    "course", "address", "city", "zipCode", "emergencyContact",
    "emergencyPhone">>

\* `${field} is required`
RequiredMessage ==
  [firstName |-> "firstName is required",
   lastName |-> "lastName is required",
   email |-> "email is required",
   phone |-> "phone is required",
   idnumber |-> "idnumber is required",
   dateOfBirth |-> "dateOfBirth is required",
   course |-> "course is required",
   address |-> "address is required",
   city |-> "city is required",
   zipCode |-> "zipCode is required",
   emergencyContact |-> "emergencyContact is required",
   emergencyPhone |-> "emergencyPhone is required"]

EmailMessage == "Please provide a valid email address"
PhoneMessage == "Please provide a valid phone number"
EmergencyPhoneMessage == "Please provide a valid emergency phone number"
AgeMessage == "Age must be between 16 and 100 years"

\* !data[field] || !data[field].toString().trim()
IsMissing(v) == ~Truthy(v) \/ trim(ToStringOf(v)) = <<>>

\* requiredFields.forEach: one message per missing field, in field order
RequiredErrors(data) ==
  LET missing == SelectSeq(RequiredFields, LAMBDA f : IsMissing(data[f]))
  IN [i \in 1..Len(missing) |-> RequiredMessage[missing[i]]]

\* validator.isEmail(x) and x.replace(...) throw a TypeError on a number
ValidateThrows(data) ==
  \/ Truthy(data.email) /\ data.email.t # "str"
  \/ Truthy(data.phone) /\ data.phone.t # "str"
  \/ Truthy(data.emergencyPhone) /\ data.emergencyPhone.t # "str"

\* The outcome of validateEnrollmentData(data) called at time now: it threw,
\* or it returned the list errors.
validateEnrollmentData(data, time) ==
  IF ValidateThrows(data) THEN [threw |-> TRUE, errors |-> <<>>]
  ELSE
    [threw |-> FALSE,
     errors |->
       RequiredErrors(data)
       \o (IF Truthy(data.email) /\ ~isEmail(data.email.s)
           THEN <<EmailMessage>> ELSE <<>>)
       \o (IF Truthy(data.phone) /\ ~PhoneOk(data.phone.s)
           THEN <<PhoneMessage>> ELSE <<>>)
       \o (IF Truthy(data.emergencyPhone) /\ ~PhoneOk(data.emergencyPhone.s)
           THEN <<EmergencyPhoneMessage>> ELSE <<>>)
       \o (IF Truthy(data.dateOfBirth)
              /\ AgeOutOfBounds(AgeAt(time, NewDate(data.dateOfBirth)))
           THEN <<AgeMessage>> ELSE <<>>)]

(***************************************************************************)
(* studentSchema: the casts and setters applied by new Student(data), and  *)
(* the validators run by save() before the insert                          *)
(***************************************************************************)
CourseCatalog ==
  { <<"C","o","m","p","u","t","e","r"," ","S","c","i","e","n","c","e">>,
    <<"B","u","s","i","n","e","s","s"," ","A","d","m","i","n","i","s","t","r","a","t","i","o","n">>,
    <<"E","n","g","i","n","e","e","r","i","n","g">>,
    <<"M","e","d","i","c","i","n","e">>,
    <<"A","r","t","s"," ","&"," ","D","e","s","i","g","n">>,
    <<"P","s","y","c","h","o","l","o","g","y">>,
    <<"M","a","t","h","e","m","a","t","i","c","s">>,
    <<"L","i","t","e","r","a","t","u","r","e">>,
    <<"I","n","f","o","r","m","a","t","i","o","n"," ","T","e","c","h","n","o","l","o","g","y">>,
    <<"P","r","o","j","e","c","t"," ","M","a","n","a","g","e","m","e","n","t">> }

NameMinLength == 2
NameMaxLength == 50
IdMinLength == 6
AddressMinLength == 10

\* a String path with trim: true
CastString(v) == trim(ToStringOf(v))

\* studentData as cast by new Student(studentData)
NewStudent_NoTrim(data) ==
  [firstName |-> ToStringOf(data.firstName),
   lastName |-> ToStringOf(data.lastName),
   email |-> toLowerCase(data.email.s),
   phone |-> ToStringOf(data.phone),
   idnumber |-> ToStringOf(data.idnumber),
   dateOfBirth |-> NewDate(data.dateOfBirth),
   course |-> ToStringOf(data.course),
   address |-> ToStringOf(data.address),
   city |-> ToStringOf(data.city),
   zipCode |-> ToStringOf(data.zipCode),
   emergencyContact |-> ToStringOf(data.emergencyContact),
   emergencyPhone |-> ToStringOf(data.emergencyPhone)]

\* the values of the status path, each with its text
StatusText ==
  [pending |-> <<"p","e","n","d","i","n","g">>,
   approved |-> <<"a","p","p","r","o","v","e","d">>,
   rejected |-> <<"r","e","j","e","c","t","e","d">>]

\* studentData taking the status and the enrollment date of the body as well
NewStudent_SpreadsBody(data) ==
  LET given == { k \in DOMAIN StatusText : StatusText[k] = ToStringOf(data.status) }
      listed ==
        [firstName |-> CastString(data.firstName),
         lastName |-> CastString(data.lastName),
         email |-> toLowerCase(trim(toLowerCase(data.email.s))),
         phone |-> CastString(data.phone),
         idnumber |-> CastString(data.idnumber),
         dateOfBirth |-> NewDate(data.dateOfBirth),
         course |-> CastString(data.course),
         address |-> CastString(data.address),
         city |-> CastString(data.city),
         zipCode |-> CastString(data.zipCode),
         emergencyContact |-> CastString(data.emergencyContact),
         emergencyPhone |-> CastString(data.emergencyPhone)]
      status == IF given = {} THEN <<>>
                ELSE [f \in {"status"} |-> CHOOSE k \in given : TRUE]
      enrollmentDate ==
        IF Truthy(data.enrollmentDate)
        THEN [f \in {"enrollmentDate"} |-> NewDate(data.enrollmentDate)]
        ELSE <<>>
  IN listed @@ status @@ enrollmentDate

NewStudent(data) ==
  [firstName |-> CastString(data.firstName),
   lastName |-> CastString(data.lastName),
   email |-> toLowerCase(trim(toLowerCase(data.email.s))),
   phone |-> CastString(data.phone),
   idnumber |-> CastString(data.idnumber),
   dateOfBirth |-> NewDate(data.dateOfBirth),
   course |-> CastString(data.course),
   address |-> CastString(data.address),
   city |-> CastString(data.city),
   zipCode |-> CastString(data.zipCode),
   emergencyContact |-> CastString(data.emergencyContact),
   emergencyPhone |-> CastString(data.emergencyPhone)]

MsgIf(cond, msg) == IF cond THEN <<msg>> ELSE <<>>

NameErrors(v, required, short, long) ==
  IF v = <<>> THEN <<required>>
  ELSE MsgIf(Len(v) < NameMinLength, short) \o MsgIf(Len(v) > NameMaxLength, long)

AddressErrors_NoMinLength(v) ==
  IF v = <<>> THEN <<"Address is required">> ELSE <<>>

AddressErrors(v) ==
  IF v = <<>> THEN <<"Address is required">>
  ELSE MsgIf(Len(v) < AddressMinLength, "Please provide a complete address")

CourseErrors_NoEnum(v) ==
  MsgIf(v = <<>>, "Course selection is required")

CourseErrors(v) ==
  IF v = <<>> THEN <<"Course selection is required">>
  ELSE MsgIf(v \notin CourseCatalog, "Please select a valid course")

DateOfBirthErrors(v, time) ==
  IF v.nan THEN <<"Cast to date failed at path dateOfBirth">>
  ELSE MsgIf(AgeOutOfBounds(AgeAt(time, v)), AgeMessage)

\* the messages of the ValidationError of doc.validate() at time now; empty
\* when the document passes
SchemaErrors(doc, time) ==
  NameErrors(doc.firstName, "First name is required",
             "First name must be at least 2 characters",
             "First name cannot exceed 50 characters")
  \o NameErrors(doc.lastName, "Last name is required",
                "Last name must be at least 2 characters",
                "Last name cannot exceed 50 characters")
  \o (IF doc.email = <<>> THEN <<"Email is required">>
      ELSE MsgIf(~isEmail(doc.email), "Please provide a valid email"))
  \o (IF doc.phone = <<>> THEN <<"Phone number is required">>
      ELSE MsgIf(~PhoneOk(doc.phone), PhoneMessage))
  \o (IF doc.idnumber = <<>> THEN <<"ID number is required">>
      ELSE MsgIf(Len(doc.idnumber) < IdMinLength,
                 "ID number must be at least 6 characters"))
  \o DateOfBirthErrors(doc.dateOfBirth, time)
  \o CourseErrors(doc.course)
  \o AddressErrors(doc.address)
  \o MsgIf(doc.city = <<>>, "City is required")
  \o MsgIf(doc.zipCode = <<>>, "ZIP code is required")
  \o MsgIf(doc.emergencyContact = <<>>, "Emergency contact is required")
  \o (IF doc.emergencyPhone = <<>> THEN <<"Emergency phone is required">>
      ELSE MsgIf(~PhoneOk(doc.emergencyPhone),
                 "Please provide a valid emergency phone number"))

(***************************************************************************)
(* The Student collection                                                  *)
(***************************************************************************)
\* the documents a findOne({$or: [{email}, {idnumber}]}) may return
MatchingStudents_EmailOnly(coll, email, idnumber) ==
  { i \in 1..Len(coll) : coll[i].email = email }

MatchingStudents(coll, email, idnumber) ==
  { i \in 1..Len(coll) : coll[i].email = email \/ coll[i].idnumber = idnumber }

\* the unique indexes (email, idnumber) an insert of doc would violate
ViolatedIndexes_EmailOnly(coll, doc) ==
  IF \E i \in 1..Len(coll) : coll[i].email = doc.email
  THEN {"email"} ELSE {}

ViolatedIndexes(coll, doc) ==
  (IF \E i \in 1..Len(coll) : coll[i].email = doc.email
   THEN {"email"} ELSE {})
  \cup (IF \E i \in 1..Len(coll) : coll[i].idnumber = doc.idnumber
        THEN {"idnumber"} ELSE {})

\* the document as stored: identity and timestamps added to the cast fields,
\* and the defaults of the paths the document does not set (status,
\* enrollmentDate)
StoredDocument(doc, id, time) ==
  [_id |-> id,
   firstName |-> doc.firstName, lastName |-> doc.lastName,
   email |-> doc.email, phone |-> doc.phone, idnumber |-> doc.idnumber,
   dateOfBirth |-> doc.dateOfBirth, course |-> doc.course,
   address |-> doc.address, city |-> doc.city, zipCode |-> doc.zipCode,
   emergencyContact |-> doc.emergencyContact,
   emergencyPhone |-> doc.emergencyPhone,
   enrollmentDate |-> IF "enrollmentDate" \in DOMAIN doc
                      THEN doc.enrollmentDate ELSE time,
   status |-> IF "status" \in DOMAIN doc THEN doc.status ELSE "pending",
   createdAt |-> time]

(***************************************************************************)
(* Request bodies                                                          *)
(***************************************************************************)
BodyFields ==
  {"firstName", "lastName", "email", "phone", "idnumber", "dateOfBirth",
   "course", "address", "city", "zipCode", "emergencyContact",
   "emergencyPhone", "status", "enrollmentDate", "_id"}

\* the sample form of the specification
AnnForm ==
  [firstName |-> Str(<<"A","n","n">>),
   lastName |-> Str(<<"L","e","e">>),
   email |-> Str(<<"A","N","N","@","X",".","C","O","M">>),
   phone |-> Str(<<"1","2","3","-","4","5","6","-","7","8","9","0">>),
   idnumber |-> Str(<<"I","D","1","2","3","4","5">>),
   dateOfBirth |-> Str(<<"2","0","0","0","-","0","1","-","0","1">>),
   course |-> Str(<<"C","o","m","p","u","t","e","r"," ","S","c","i","e","n","c","e">>),
   address |-> Str(<<"1"," ","M","a","i","n"," ","S","t">>),
   city |-> Str(<<"S","p","r","i","n","g","f","i","e","l","d">>),
   zipCode |-> Str(<<"0","0","0","0","1">>),
   emergencyContact |-> Str(<<"B","o","b"," ","L","e","e">>),
   emergencyPhone |-> Str(<<"1","1","1","-","2","2","2","-","3","3","3","3">>),
   status |-> Undef, enrollmentDate |-> Undef, _id |-> Undef]

LongAddress == Str(<<"1","2"," ","M","a","i","n"," ","S","t","r","e","e","t">>)

\* the sample form with an address the schema accepts
AnnOk == [AnnForm EXCEPT !.address = LongAddress]

\* another applicant, with padding and markup characters in the values and
\* a status, an enrollment date and an identity of the client's choosing
BobOk ==
  [AnnOk EXCEPT
     !.firstName = Str(<<"<"," ","B","o","b"," ",">">>),
     !.email = Str(<<"b","o","b","@","x",".","c","o","m">>),
     !.idnumber = Str(<<"I","D","6","7","8","9","0">>),
     !.status = Str(<<"a","p","p","r","o","v","e","d">>),
     !.enrollmentDate = Str(<<"2","0","0","0","-","0","1","-","0","1">>),
     !._id = Str(<<"9">>)]

\* Ann's email in another spelling with Bob's id number
Cross ==
  [AnnOk EXCEPT
     !.email = Str(<<" ","A","n","n","@","x",".","c","o","m"," ">>),
     !.idnumber = Str(<<"I","D","6","7","8","9","0">>)]

\* firstName absent, city blank
MissingTwo ==
  [AnnOk EXCEPT !.firstName = Undef, !.city = Str(<<" "," "," ">>)]

\* firstName absent and phone given as a JSON number
NumberPhone ==
  [AnnOk EXCEPT !.firstName = Undef,
                !.phone = Num(<<"1","2","3","4","5","6","7","8","9","0">>)]

\* born sixteen years of 365.25 days before the instant the clock starts at
Sixteen ==
  [AnnOk EXCEPT
     !.dateOfBirth = Str(<<"2","0","1","0","-","1","1","-","0","1">>)]

\* born a day later: fifteen
Fifteen ==
  [AnnOk EXCEPT
     !.dateOfBirth = Str(<<"2","0","1","0","-","1","1","-","0","2">>)]

\* born six hours less than 101 years of 365.25 days before the instant the
\* clock starts at: a hundred until the clock steps, a hundred and one after
AlmostHundredOne ==
  [AnnOk EXCEPT
     !.dateOfBirth = Str(<<"1","9","2","5","-","1","1","-","0","1">>)]

\* a course that is not in the catalog
BadCourse ==
  [AnnOk EXCEPT !.course = Str(<<"A","s","t","r","o","l","o","g","y">>)]

\* the forms a request may submit, by name
Form ==
  [AnnForm |-> AnnForm, AnnOk |-> AnnOk, BobOk |-> BobOk, Cross |-> Cross,
   MissingTwo |-> MissingTwo, NumberPhone |-> NumberPhone,
   BadCourse |-> BadCourse,
   Sixteen |-> Sixteen, Fifteen |-> Fifteen,
   AlmostHundredOne |-> AlmostHundredOne]

FormNames == DOMAIN Form

\* 2026-11-01T00:00Z, in units of six hours
NowStart == UnitsPerDay * DaysFromCivil(2026, 11, 1)

Times == NowStart..(NowStart + MaxTick)

(***************************************************************************)
(* Responses                                                               *)
(***************************************************************************)
NoData == [studentId |-> 0, email |-> <<>>, course |-> <<>>, status |-> ""]

NoResponse ==
  [status |-> 0, code |-> "", message |-> "", errors |-> <<>>, data |-> NoData]

\* `A student with this ${field} already exists`
ConflictMessage(field) ==
  CASE field = "email" -> "A student with this email already exists"
    [] field = "ID number" -> "A student with this ID number already exists"
    [] field = "idnumber" -> "A student with this idnumber already exists"

ValidationFailed(errors) ==
  [status |-> 400, code |-> "", message |-> "Validation failed",
   errors |-> errors, data |-> NoData]

Conflict(field) ==
  [status |-> 409, code |-> "DUPLICATE_ENTRY",
   message |-> ConflictMessage(field), errors |-> <<>>, data |-> NoData]

ServerError ==
  [status |-> 500, code |-> "INTERNAL_ERROR",
   message |-> "Internal server error. Please try again later.",
   errors |-> <<>>, data |-> NoData]

Created(saved) ==
  [status |-> 201, code |-> "",
   message |-> "Enrollment application submitted successfully! Please check your email for confirmation details.",
   errors |-> <<>>,
   data |-> [studentId |-> saved._id, email |-> saved.email,
             course |-> saved.course, status |-> saved.status]]

\* what the handler's catch block is given
TypeError == [name |-> "TypeError", code |-> 0, key |-> "", messages |-> <<>>]
DuplicateKeyError(key) ==
  [name |-> "MongoServerError", code |-> 11000, key |-> key, messages |-> <<>>]
ValidationError(messages) ==
  [name |-> "ValidationError", code |-> 0, key |-> "", messages |-> messages]
StorageError == [name |-> "MongoError", code |-> 0, key |-> "", messages |-> <<>>]
NoError == [name |-> "", code |-> 0, key |-> "", messages |-> <<>>]

\* the catch block of the /send handler
CatchResponse_NoDuplicateBranch(error) ==
  IF error.name = "ValidationError" THEN ValidationFailed(error.messages)
  ELSE ServerError

CatchResponse_NoValidationBranch(error) ==
  IF error.code = 11000 THEN Conflict(error.key) ELSE ServerError

CatchResponse(error) ==
  IF error.code = 11000 THEN Conflict(error.key)
  ELSE IF error.name = "ValidationError" THEN ValidationFailed(error.messages)
  ELSE ServerError

\* existingStudent.email === sanitizedData.email.toLowerCase() ? 'email' : 'ID number'
DuplicateField(existing, email) ==
  IF existing.email = email THEN "email" ELSE "ID number"

(***************************************************************************)
(* The locals of the /send handler, as functions of the submitted form     *)
(***************************************************************************)
\* req.body.idnumber.slice(-4) of the log line throws on a truthy non-string
LogThrows(body) == Truthy(body.idnumber) /\ body.idnumber.t # "str"

\* sanitizedData: every key of the body through sanitizeInput
Sanitized(body) == [f \in BodyFields |-> sanitizeInput(body[f])]

\* a function as a table of its values, each computed once
Table(f) == f @@ <<>>

SanitizedData == Table([n \in FormNames |-> Table(Sanitized(Form[n]))])

\* validationErrors, for a request validated at time t
Validation ==
  Table([n \in FormNames |->
           Table([t \in Times |->
                    validateEnrollmentData(SanitizedData[n], t)])])

\* birthDate = new Date(data.dateOfBirth), for a form that gives one
BirthDate ==
  Table([n \in FormNames |-> NewDate(SanitizedData[n].dateOfBirth)])

\* the email and idnumber of the duplicate query
QueryEmail ==
  Table([n \in FormNames |-> toLowerCase(SanitizedData[n].email.s)])
QueryId == Table([n \in FormNames |-> SanitizedData[n].idnumber.s])

\* newStudent
StudentDoc == Table([n \in FormNames |-> NewStudent(SanitizedData[n])])

\* what newStudent.save() finds when it validates at time t
SchemaCheck ==
  Table([n \in FormNames |->
           Table([t \in Times |-> SchemaErrors(StudentDoc[n], t)])])

(***************************************************************************)
(* GET /api/students and GET /api/students/:id: parameters, filters, pages *)
(***************************************************************************)
PageDefault == 1
LimitDefault == 20

\* the longest prefix of s made of digits
DigitPrefix(s) ==
  LET n == CHOOSE k \in 0..Len(s) :
             /\ \A i \in 1..k : IsDigit(s[i])
             /\ k = Len(s) \/ ~IsDigit(s[k + 1])
  IN SubSeq(s, 1, n)

\* parseInt(value): leading whitespace skipped, an optional sign, then the
\* digits up to the first other character; NaN when there is no digit, and
\* for undefined
ParseInt(v) ==
  IF v.t # "str" THEN NaN
  ELSE LET s == trim(v.s)
           signed == s # <<>> /\ s[1] \in {"-", "+"}
           digits == DigitPrefix(IF signed THEN Tail(s) ELSE s)
       IN IF digits = <<>> THEN NaN
          ELSE IF s[1] = "-" THEN Time(0 - DecimalValue(digits))
          ELSE Time(DecimalValue(digits))

\* parseInt(value) || default: the default replaces NaN and 0
OrDefault(parsed, default) ==
  IF parsed.nan \/ parsed.t = 0 THEN default ELSE parsed.t

\* Math.ceil(total / limit), limit not 0
CeilDiv(total, limit) ==
  IF limit > 0 THEN (total + limit - 1) \div limit
  ELSE 0 - (total \div (0 - limit))

\* new RegExp(pattern, 'i') throws a SyntaxError on an unterminated group.
\* The patterns considered are made of letters, digits, spaces, "@", the
\* wildcard "." and parentheses.
RegExpThrows(pattern) ==
  Cardinality({ i \in 1..Len(pattern) : pattern[i] = "(" })
    # Cardinality({ i \in 1..Len(pattern) : pattern[i] = ")" })

\* new RegExp(pattern, 'i').test(s) for a pattern without parentheses: the
\* pattern matches somewhere in s, "." standing for any character, letters
\* compared without case
RegExpTest(pattern, s) ==
  \E i \in 1..(Len(s) - Len(pattern) + 1) :
    \A j \in 1..Len(pattern) :
      \/ pattern[j] = "."
      \/ ToLowerChar(pattern[j]) = ToLowerChar(s[i + j - 1])

SearchedFields == {"firstName", "lastName", "email", "course"}

\* whether a record satisfies the query object built from req.query
MatchesQuery(rec, q) ==
  /\ Truthy(q.course) => rec.course = q.course.s
  /\ Truthy(q.status) => StatusText[rec.status] = q.status.s
  /\ Truthy(q.search) =>
       \E f \in SearchedFields : RegExpTest(q.search.s, rec[f])

MatchingRecords(coll, q) == { i \in 1..Len(coll) : MatchesQuery(coll[i], q) }

\* sort({createdAt: -1}): the orders of the matching records in which
\* createdAt never increases (records created at the same instant come in
\* either order)
SortedMatches(coll, q) ==
  LET M == MatchingRecords(coll, q)
      n == Cardinality(M)
  IN { o \in [1..n -> M] :
         /\ \A a, b \in 1..n : a # b => o[a] # o[b]
         /\ \A a, b \in 1..n : a < b =>
              coll[o[a]].createdAt >= coll[o[b]].createdAt }

\* skip(skip).limit(limit) of an order, as documents; a negative limit asks
\* for that many documents in a single batch
PageOf(coll, order, skip, limit) ==
  LET size == IF limit < 0 THEN 0 - limit ELSE limit
      last == IF skip + size < Len(order) THEN skip + size ELSE Len(order)
  IN [k \in 1..(IF last > skip THEN last - skip ELSE 0) |->
        coll[order[skip + k]]]

\* Student.findById(id)
findById(coll, id) == { i \in 1..Len(coll) : coll[i]._id = id }

\* res.json(...) and the error responses of the two handlers
ListOk(found, page, limit, total) ==
  [status |-> 200, success |-> TRUE, message |-> "",
   students |-> found,
   pagination |-> [page |-> page, limit |-> limit, total |-> total,
                   pages |-> CeilDiv(total, limit)]]
StudentOk(student) ==
  [status |-> 200, success |-> TRUE, message |-> "", student |-> student]
InvalidId ==
  [status |-> 400, success |-> FALSE, message |-> "Invalid student ID format"]
NotFound ==
  [status |-> 404, success |-> FALSE, message |-> "Student not found"]
FetchError ==
  [status |-> 500, success |-> FALSE, message |-> "Error fetching student data"]
HealthOk == [status |-> 200, success |-> TRUE, message |-> "OK"]

(***************************************************************************)
(* State                                                                   *)
(***************************************************************************)
VARIABLES
  now,       \* the clock, in units of six hours
  students,  \* the Student collection, in insertion order
  req,       \* the requests in view: position, form, mail promises, response
  get,       \* the GET request in view: route, parameters, position, response
  text       \* a value given to sanitizeInput, and what it returned

vars == <<now, students, req, get, text>>

Reqs == 1..NReq

NoMail == [student |-> "none", admin |-> "none"]
MailNames == {"student", "admin"}

IdleRequest ==
  [pc |-> "idle", via |-> "", form |-> "", saved |-> 0, mail |-> NoMail,
   caught |-> NoError, resp |-> NoResponse, steps |-> <<>>]

\* no GET request in view
NoGet == [pc |-> "idle"]

\* sanitizeInput not called
NoText == [called |-> FALSE]

Init ==
  /\ now = NowStart
  /\ students = <<>>
  /\ req = [r \in Reqs |-> IdleRequest]
  /\ get = NoGet
  /\ text = NoText

\* res.status(...).json(...): the response is recorded and the handler ends
Respond(q, response) ==
  [q EXCEPT !.pc = "done", !.resp = response, !.steps = Append(@, "respond")]

Step(q, name) == [q EXCEPT !.steps = Append(@, name)]

\* the outer catch of the /send handler is entered with error
Catch(q, error) == Respond([q EXCEPT !.caught = error], CatchResponse(error))

\* A slot is free when it holds no request, or one whose handler has ended
\* and whose mails have settled.  A new request takes the first free slot,
\* and the requests of the free slots go out of view.
Free(r) ==
  /\ req[r].pc \in {"idle", "done", "hung"}
  /\ \A w \in MailNames : req[r].mail[w] # "pending"

MayArrive(r) == Free(r) /\ \A p \in Reqs : p < r => ~Free(p)

Arrive(r, q) ==
  [p \in Reqs |-> IF p = r THEN q ELSE IF Free(p) THEN IdleRequest ELSE req[p]]

(***************************************************************************)
(* POST /send, from the arrival of the request to its first await: the log *)
(* line, the sanitizing of every key, the validation, and the issue of the *)
(* duplicate query                                                         *)
(***************************************************************************)
SendReceive_NoEarlyReturn(r, n) ==
  /\ MayArrive(r)
  /\ LET q == [IdleRequest EXCEPT !.via = "/send", !.form = n]
         v == Validation[n][now]
         d == Step(q, "validate")
     IN req' = Arrive(r,
          IF LogThrows(Form[n]) THEN Catch(q, TypeError)
          ELSE IF v.threw THEN Catch(d, TypeError)
          ELSE [Step(d, "findOne") EXCEPT !.pc = "query"])
  /\ UNCHANGED <<now, students, get, text>>

SendReceive(r, n) ==
  /\ MayArrive(r)
  /\ LET q == [IdleRequest EXCEPT !.via = "/send", !.form = n]
         v == Validation[n][now]
         d == Step(q, "validate")
     IN req' = Arrive(r,
          IF LogThrows(Form[n]) THEN Catch(q, TypeError)
          ELSE IF v.threw THEN Catch(d, TypeError)
          ELSE IF Len(v.errors) > 0 THEN Respond(d, ValidationFailed(v.errors))
          ELSE [Step(d, "findOne") EXCEPT !.pc = "query"])
  /\ UNCHANGED <<now, students, get, text>>

(***************************************************************************)
(* The duplicate query returns: a conflict, or the save is issued          *)
(***************************************************************************)
QueryReturn_IgnoresMatch(r) ==
  /\ req[r].pc = "query"
  /\ req' = [req EXCEPT ![r] = [Step(@, "save") EXCEPT !.pc = "saving"]]
  /\ UNCHANGED <<now, students, get, text>>

QueryReturn(r) ==
  /\ req[r].pc = "query"
  /\ LET q == req[r]
         email == QueryEmail[q.form]
         found == MatchingStudents(students, email, QueryId[q.form])
     IN \E i \in (IF found = {} THEN {0} ELSE found) :
          req' = [req EXCEPT ![r] =
            IF i # 0
            THEN Respond(q, Conflict(DuplicateField(students[i], email)))
            ELSE [Step(q, "save") EXCEPT !.pc = "saving"]]
  /\ UNCHANGED <<now, students, get, text>>

\* Student.findOne rejects: the outer catch answers
QueryFails(r) ==
  /\ req[r].pc = "query"
  /\ req' = [req EXCEPT ![r] = Catch(@, StorageError)]
  /\ UNCHANGED <<now, students, get, text>>

(***************************************************************************)
(* The save returns.  save() validates the document first; a document that *)
(* passes is inserted unless a unique index rejects it or the store fails. *)
(***************************************************************************)
\* The process environment as one call of createTransporter and the admin
\* test read it: whether createTransporter returns a transporter (it throws
\* on an unsupported EMAIL_SERVICE, and when nodemailer has no
\* createTransporter function), and whether ADMIN_EMAIL or EMAIL_USER is set.
Environments == [transporter : BOOLEAN, admin : BOOLEAN]

\* from a saved student to the await of Promise.all(emailPromises): the
\* transporter is created and the mails are started inside the inner try,
\* whose catch swallows what createTransporter throws
StartNotification_Propagates(q, saved, env) ==
  IF ~env.transporter
  THEN Catch(Step(q, "createTransporter"), TypeError)
  ELSE LET started == Step(Step(q, "createTransporter"), "sendMail:student")
       IN [(IF env.admin THEN Step(started, "sendMail:admin") ELSE started)
            EXCEPT !.pc = "mailing",
                   !.mail = [student |-> "pending",
                             admin |-> IF env.admin THEN "pending" ELSE "none"]]

StartNotification(q, saved, env) ==
  IF ~env.transporter
  THEN Respond(Step(q, "createTransporter"), Created(saved))
  ELSE LET started == Step(Step(q, "createTransporter"), "sendMail:student")
       IN [(IF env.admin THEN Step(started, "sendMail:admin") ELSE started)
            EXCEPT !.pc = "mailing",
                   !.mail = [student |-> "pending",
                             admin |-> IF env.admin THEN "pending" ELSE "none"]]

SaveRejectedBySchema(r) ==
  /\ req[r].pc = "saving"
  /\ LET errors == SchemaCheck[req[r].form][now]
     IN /\ errors # <<>>
        /\ req' = [req EXCEPT ![r] = Catch(@, ValidationError(errors))]
  /\ UNCHANGED <<now, students, get, text>>

SaveRejectedByIndex(r) ==
  /\ req[r].pc = "saving"
  /\ SchemaCheck[req[r].form][now] = <<>>
  /\ \E key \in ViolatedIndexes(students, StudentDoc[req[r].form]) :
       req' = [req EXCEPT ![r] = Catch(@, DuplicateKeyError(key))]
  /\ UNCHANGED <<now, students, get, text>>

SaveFails(r) ==
  /\ req[r].pc = "saving"
  /\ SchemaCheck[req[r].form][now] = <<>>
  /\ req' = [req EXCEPT ![r] = Catch(@, StorageError)]
  /\ UNCHANGED <<now, students, get, text>>

SaveSucceeds(r, env) ==
  /\ req[r].pc = "saving"
  /\ SchemaCheck[req[r].form][now] = <<>>
  /\ ViolatedIndexes(students, StudentDoc[req[r].form]) = {}
  /\ LET saved == StoredDocument(StudentDoc[req[r].form],
                                 Len(students) + 1, now)
     IN /\ students' = Append(students, saved)
        /\ req' = [req EXCEPT ![r] =
                     StartNotification([@ EXCEPT !.saved = saved._id],
                                       saved, env)]
  /\ UNCHANGED <<now, get, text>>

(***************************************************************************)
(* A mail promise settles.  Promise.all rejects with the first rejection   *)
(* and resolves when every promise has resolved; either way the handler    *)
(* goes on to the 201 response.  A promise still pending then settles      *)
(* after the response.                                                     *)
(***************************************************************************)
MailSettles_RespondsEachTime(r, which, ok) ==
  /\ req[r].mail[which] = "pending"
  /\ LET q == [req[r] EXCEPT !.mail[which] = IF ok THEN "sent" ELSE "failed"]
     IN req' = [req EXCEPT ![r] = Respond(q, Created(students[q.saved]))]
  /\ UNCHANGED <<now, students, get, text>>

MailSettles(r, which, ok) ==
  /\ req[r].mail[which] = "pending"
  /\ LET q == [req[r] EXCEPT !.mail[which] = IF ok THEN "sent" ELSE "failed"]
         settled == \A w \in MailNames : q.mail[w] # "pending"
     IN req' = [req EXCEPT ![r] =
          IF q.pc = "mailing" /\ (~ok \/ settled)
          THEN Respond(q, Created(students[q.saved]))
          ELSE q]
  /\ UNCHANGED <<now, students, get, text>>

(***************************************************************************)
(* POST /api/route: the first handler sets req.url and calls next(), which *)
(* runs the rest of this route: the limiter and a handler with an empty    *)
(* body.  Nothing sends a response and nothing calls next() again.         *)
(***************************************************************************)
ApiRouteReceive(r, n) ==
  /\ MayArrive(r)
  /\ req' = Arrive(r, [IdleRequest EXCEPT !.via = "/api/route", !.form = n,
                                          !.pc = "hung"])
  /\ UNCHANGED <<now, students, get, text>>

Tick ==
  /\ now < NowStart + MaxTick
  /\ now' = now + 1
  /\ UNCHANGED <<students, req, get, text>>

Next ==
  \/ \E r \in Reqs, n \in FormNames : SendReceive(r, n)
  \/ \E r \in Reqs, n \in FormNames : ApiRouteReceive(r, n)
  \/ \E r \in Reqs : QueryReturn(r)
  \/ \E r \in Reqs : QueryFails(r)
  \/ \E r \in Reqs : SaveRejectedBySchema(r)
  \/ \E r \in Reqs : SaveRejectedByIndex(r)
  \/ \E r \in Reqs : SaveFails(r)
  \/ \E r \in Reqs, env \in Environments : SaveSucceeds(r, env)
  \/ \E r \in Reqs, which \in MailNames, ok \in BOOLEAN : MailSettles(r, which, ok)
  \/ Tick

Spec == Init /\ [][Next]_vars

\* Every store call and every mail dispatch of a request eventually settles:
\* the request is waiting for one of them at a time.
Settle(r) ==
  \/ QueryReturn(r) \/ QueryFails(r)
  \/ SaveRejectedBySchema(r) \/ SaveRejectedByIndex(r) \/ SaveFails(r)
  \/ \E env \in Environments : SaveSucceeds(r, env)
  \/ \E which \in MailNames, ok \in BOOLEAN : MailSettles(r, which, ok)

FairSpec == Spec /\ \A r \in Reqs : WF_vars(Settle(r))

(***************************************************************************)
(* GET /api/students/:id                                                   *)
(***************************************************************************)
\* req.params.id: a well-formed ObjectId (here the number it stands for) or
\* some other text
IdParams ==
  { [valid |-> TRUE, n |-> k] : k \in 0..3 } \cup { [valid |-> FALSE, n |-> 0] }

GetFree == get.pc \in {"idle", "done"}

LookupReceive(id) ==
  /\ GetFree
  /\ get' = IF ~id.valid
            THEN [pc |-> "done", route |-> "/api/students/:id", id |-> id,
                  resp |-> InvalidId]
            ELSE [pc |-> "findById", route |-> "/api/students/:id", id |-> id]
  /\ UNCHANGED <<now, students, req, text>>

LookupReturn ==
  /\ get.pc = "findById"
  /\ LET found == findById(students, get.id.n)
     IN get' = [pc |-> "done", route |-> get.route, id |-> get.id,
                resp |-> IF found = {} THEN NotFound
                         ELSE StudentOk(students[CHOOSE i \in found : TRUE])]
  /\ UNCHANGED <<now, students, req, text>>

LookupFails ==
  /\ get.pc = "findById"
  /\ get' = [pc |-> "done", route |-> get.route, id |-> get.id,
             resp |-> FetchError]
  /\ UNCHANGED <<now, students, req, text>>

(***************************************************************************)
(* GET /api/students                                                       *)
(***************************************************************************)
PageTexts == {Undef, Str(<<"2">>), Str(<<"0">>), Str(<<"-","1">>),
              Str(<<"2","a","b","c">>)}
LimitTexts == {Undef, Str(<<"1">>), Str(<<"2">>), Str(<<"-","1">>)}
CourseFilters == {Undef, Str(<<"M","a","t","h","e","m","a","t","i","c","s">>)}
StatusFilters == {Undef, Str(<<"p","e","n","d","i","n","g">>),
                  Str(<<"a","p","p","r","o","v","e","d">>)}
SearchTexts == {Undef, Str(<<"c","o","m","p","u","t","e","r">>),
                Str(<<"a",".","n">>), Str(<<"(">>)}

\* req.query
Queries ==
  [page : PageTexts, limit : LimitTexts, course : CourseFilters,
   status : StatusFilters, search : SearchTexts]

\* from the arrival of the request to await Student.find(...)
ListReceive(q) ==
  /\ GetFree
  /\ LET page == OrDefault(ParseInt(q.page), PageDefault)
         limit == OrDefault(ParseInt(q.limit), LimitDefault)
     IN get' = IF Truthy(q.search) /\ RegExpThrows(q.search.s)
               THEN [pc |-> "done", route |-> "/api/students", query |-> q,
                     resp |-> FetchError]
               ELSE [pc |-> "find", route |-> "/api/students", query |-> q,
                     page |-> page, limit |-> limit,
                     skip |-> (page - 1) * limit]
  /\ UNCHANGED <<now, students, req, text>>

\* the find returns a page; the store refuses a negative skip
ListFindReturn ==
  /\ get.pc = "find"
  /\ get.skip >= 0
  /\ \E order \in SortedMatches(students, get.query) :
       get' = [pc |-> "count", route |-> get.route, query |-> get.query,
               page |-> get.page, limit |-> get.limit, skip |-> get.skip,
               found |-> PageOf(students, order, get.skip, get.limit)]
  /\ UNCHANGED <<now, students, req, text>>

ListFindFails ==
  /\ get.pc = "find"
  /\ get' = [pc |-> "done", route |-> get.route, query |-> get.query,
             resp |-> FetchError]
  /\ UNCHANGED <<now, students, req, text>>

ListCountReturn ==
  /\ get.pc = "count"
  /\ LET total == Cardinality(MatchingRecords(students, get.query))
     IN get' = [pc |-> "done", route |-> get.route, query |-> get.query,
                resp |-> ListOk(get.found, get.page, get.limit, total)]
  /\ UNCHANGED <<now, students, req, text>>

ListCountFails ==
  /\ get.pc = "count"
  /\ get' = [pc |-> "done", route |-> get.route, query |-> get.query,
             resp |-> FetchError]
  /\ UNCHANGED <<now, students, req, text>>

(***************************************************************************)
(* GET /health                                                             *)
(***************************************************************************)
Health ==
  /\ GetFree
  /\ get' = [pc |-> "done", route |-> "/health", resp |-> HealthOk]
  /\ UNCHANGED <<now, students, req, text>>

(***************************************************************************)
(* The read endpoints over a store that earlier submissions have filled    *)
(***************************************************************************)
\* a third applicant, enrolled in another course
CarolOk ==
  [AnnOk EXCEPT
     !.firstName = Str(<<"C","a","r","o","l">>),
     !.email = Str(<<"c","a","r","o","l","@","x",".","c","o","m">>),
     !.idnumber = Str(<<"I","D","2","4","6","8","0">>),
     !.course = Str(<<"M","a","t","h","e","m","a","t","i","c","s">>)]

\* the record that a 201 submission of body at the given time left
SavedAt(body, id, time) ==
  StoredDocument(NewStudent(Sanitized(body)), id, time)

Enrolled ==
  <<SavedAt(AnnOk, 1, NowStart - 3), SavedAt(BobOk, 2, NowStart - 2),
    SavedAt(CarolOk, 3, NowStart - 1)>>

Stores == { SubSeq(Enrolled, 1, k) : k \in 0..Len(Enrolled) }

ReadInit ==
  /\ now = NowStart
  /\ students \in Stores
  /\ req = [r \in Reqs |-> IdleRequest]
  /\ get = NoGet
  /\ text = NoText

ReadNext ==
  \/ \E id \in IdParams : LookupReceive(id)
  \/ LookupReturn
  \/ LookupFails
  \/ \E q \in Queries : ListReceive(q)
  \/ ListFindReturn
  \/ ListFindFails
  \/ ListCountReturn
  \/ ListCountFails
  \/ Health

ReadSpec == ReadInit /\ [][ReadNext]_vars

(***************************************************************************)
(* Every endpoint over one store: submissions and reads interleaved, at    *)
(* one instant of the clock                                                *)
(***************************************************************************)
\* the forms submitted here: two that are stored, one that the schema rejects
ServedForms == {"AnnOk", "BobOk", "BadCourse"}

\* the lookups made here: a stored id, an id never stored, a malformed one
ServedIds == { id \in IdParams : ~id.valid \/ id.n \in {1, 3} }

\* the listings made here: everything, the approved records, a page the
\* store refuses
ServedQueries ==
  { q \in Queries :
      /\ q.limit = Undef /\ q.course = Undef /\ q.search = Undef
      /\ \/ q.page = Undef /\ q.status # Str(StatusText.pending)
         \/ q.page = Str(<<"-","1">>) /\ q.status = Undef }

ServerNext ==
  \/ \E r \in Reqs, n \in ServedForms : SendReceive(r, n)
  \/ \E r \in Reqs, n \in ServedForms : ApiRouteReceive(r, n)
  \/ \E r \in Reqs : QueryReturn(r)
  \/ \E r \in Reqs : QueryFails(r)
  \/ \E r \in Reqs : SaveRejectedBySchema(r)
  \/ \E r \in Reqs : SaveRejectedByIndex(r)
  \/ \E r \in Reqs : SaveFails(r)
  \/ \E r \in Reqs, env \in Environments : SaveSucceeds(r, env)
  \/ \E r \in Reqs, which \in MailNames, ok \in BOOLEAN : MailSettles(r, which, ok)
  \/ \E id \in ServedIds : LookupReceive(id)
  \/ LookupReturn
  \/ LookupFails
  \/ \E q \in ServedQueries : ListReceive(q)
  \/ ListFindReturn
  \/ ListFindFails
  \/ ListCountReturn
  \/ ListCountFails
  \/ Health

ServerSpec == Init /\ [][ServerNext]_vars

(***************************************************************************)
(* sanitizeInput on its own, over short texts                              *)
(***************************************************************************)
MaxText == 3
TextChars == {" ", "<", ">", "'", "a"}

RECURSIVE TextsOf(_)
TextsOf(n) ==
  IF n = 0 THEN {<<>>}
  ELSE LET shorter == TextsOf(n - 1)
       IN shorter \cup { Append(t, c) : t \in shorter, c \in TextChars }

\* what sanitizeInput may be given: texts, and a number
Inputs == { Str(t) : t \in TextsOf(MaxText) } \cup { Num(<<"7">>) }

SanitizeCall(input) ==
  /\ text' = [called |-> TRUE, input |-> input,
              output |-> sanitizeInput(input)]
  /\ UNCHANGED <<now, students, req, get>>

SanitizeInit ==
  /\ now = NowStart
  /\ students = <<>>
  /\ req = [r \in Reqs |-> IdleRequest]
  /\ get = NoGet
  /\ text = NoText

SanitizeNext == \E input \in Inputs : SanitizeCall(input)

SanitizeSpec == SanitizeInit /\ [][SanitizeNext]_vars

(***************************************************************************)
(* Properties                                                              *)
(***************************************************************************)
Sent(r) == req[r].via = "/send"
Ended(r) == req[r].pc = "done"
StepsOf(r) == Range(req[r].steps)
MailSteps == {"createTransporter", "sendMail:student", "sendMail:admin"}
EmailStored(email) == \E i \in 1..Len(students) : students[i].email = email
IdStored(id) == \E i \in 1..Len(students) : students[i].idnumber = id

\* Two requests that both issued the save while sharing a key.  Each passed
\* the duplicate query while no record with its keys was stored; a save that
\* stores nothing leaves the store as the other's query saw it.
SharesKey(r1, r2) ==
  \/ QueryEmail[req[r1].form] = QueryEmail[req[r2].form]
  \/ QueryId[req[r1].form] = QueryId[req[r2].form]
Racing(r1, r2) ==
  /\ r1 # r2
  /\ Sent(r1) /\ Sent(r2)
  /\ "save" \in StepsOf(r1) /\ "save" \in StepsOf(r2)
  /\ SharesKey(r1, r2)

\* C1: no two stored records ever share an email, and no two ever share an
\* idnumber, whatever the interleaving of the requests.
C1_UniqueKeys ==
  \A i, j \in 1..Len(students) :
    i # j => /\ students[i].email # students[j].email
             /\ students[i].idnumber # students[j].idnumber

\* two records are stored and a save has been rejected by a unique index
C1_Witness ==
  /\ Len(students) >= 2
  /\ \E r \in Reqs : Ended(r) /\ req[r].caught.code = 11000

\* C2: once the save of a request has succeeded, the record stays stored and
\* the request never reaches the catch block: it waits for its mails or has
\* been answered 201 with the stored record, whatever became of the mails.
C2_SavedEndsCreated ==
  \A r \in Reqs :
    req[r].saved # 0 =>
      /\ req[r].saved \in 1..Len(students)
      /\ students[req[r].saved]._id = req[r].saved
      /\ req[r].caught = NoError
      /\ req[r].pc \in {"mailing", "done"}
      /\ Ended(r) =>
           /\ req[r].resp.status = 201
           /\ req[r].resp.data.studentId = req[r].saved
           /\ req[r].resp.data.email = students[req[r].saved].email

\* a request answered 201 although both of its mails failed
C2_Witness ==
  \E r \in Reqs :
    /\ Ended(r) /\ req[r].saved # 0 /\ req[r].resp.status = 201
    /\ req[r].mail.student = "failed" /\ req[r].mail.admin = "failed"

\* C3: a step of POST /send in which validateEnrollmentData returns a
\* non-empty list ends the request with 400 and that list; the duplicate
\* query is not issued, nothing is saved, no mail is started and the store is
\* unchanged.
C3_ValidationFailureEnds ==
  [][\A r \in Reqs, n \in FormNames :
       (/\ req'[r].via = "/send" /\ req'[r].form = n
        /\ SendReceive(r, n)
        /\ ~LogThrows(Form[n])
        /\ ~Validation[n][now].threw
        /\ Validation[n][now].errors # <<>>)
       => /\ req'[r].pc = "done"
          /\ req'[r].resp.status = 400
          /\ req'[r].resp.message = "Validation failed"
          /\ req'[r].resp.errors =
               Validation[n][now].errors
          /\ req'[r].steps = <<"validate", "respond">>
          /\ req'[r].saved = 0
          /\ req'[r].mail = NoMail
          /\ students' = students]_vars

\* a form with two required fields missing has been answered 400 with both
\* messages while the store holds a record
C3_Witness ==
  \E r \in Reqs :
    /\ Sent(r) /\ Ended(r) /\ req[r].form = "MissingTwo"
    /\ req[r].resp.status = 400
    /\ req[r].resp.errors = <<"firstName is required", "city is required">>
    /\ Len(students) > 0

\* C4: when the duplicate query of a request returns while a stored record
\* has the request's normalized email or its idnumber, the request ends with
\* 409 DUPLICATE_ENTRY, no save is issued, no mail is started and the store is
\* unchanged; when the email is stored and the idnumber is not, the message
\* cites the email.
C4_DuplicateConflict ==
  [][\A r \in Reqs :
       (/\ req[r].pc = "query"
        /\ QueryReturn(r)
        /\ \/ EmailStored(QueryEmail[req[r].form])
           \/ IdStored(QueryId[req[r].form]))
       => /\ req'[r].pc = "done"
          /\ req'[r].resp.status = 409
          /\ req'[r].resp.code = "DUPLICATE_ENTRY"
          /\ req'[r].steps = <<"validate", "findOne", "respond">>
          /\ req'[r].saved = 0
          /\ req'[r].mail = NoMail
          /\ students' = students
          /\ (/\ EmailStored(QueryEmail[req[r].form])
              /\ ~IdStored(QueryId[req[r].form]))
             => req'[r].resp.message =
                  "A student with this email already exists"]_vars

\* the form with a stored email and an idnumber nobody has was answered 409,
\* citing the email
C4_Witness ==
  \E r \in Reqs :
    /\ Sent(r) /\ Ended(r) /\ req[r].form = "Cross"
    /\ EmailStored(QueryEmail["Cross"]) /\ ~IdStored(QueryId["Cross"])
    /\ req[r].resp.status = 409
    /\ req[r].resp.message = "A student with this email already exists"
    /\ req[r].steps = <<"validate", "findOne", "respond">>

\* C5, as the specification states it: of two ended requests that raced to
\* the save while sharing a key, neither meeting a failure of the store,
\* exactly one was answered 201 and the other 409 DUPLICATE_ENTRY with no
\* mail.
C5_ExactlyOneCreated ==
  \A r1, r2 \in Reqs :
    (/\ Racing(r1, r2) /\ Ended(r1) /\ Ended(r2)
     /\ req[r1].caught # StorageError /\ req[r2].caught # StorageError) =>
      \E w \in {r1, r2} :
        LET l == IF w = r1 THEN r2 ELSE r1
        IN /\ req[w].resp.status = 201
           /\ req[l].resp.status = 409
           /\ req[l].resp.code = "DUPLICATE_ENTRY"
           /\ StepsOf(l) \cap MailSteps = {}

\* C5, amended: of two requests that raced to the save while sharing a key, at
\* most one creates a record and is answered 201.  Once one has been, the
\* other has created no record and started no mail: the uniqueness violation
\* of its save answers it 409 DUPLICATE_ENTRY, unless the schema rejected its
\* document (400) or the store failed for another reason (500).
C5_AtMostOneCreated ==
  \A r1, r2 \in Reqs :
    (Racing(r1, r2) /\ Ended(r1) /\ Ended(r2)) =>
      /\ ~(req[r1].resp.status = 201 /\ req[r2].resp.status = 201)
      /\ ~(req[r1].saved # 0 /\ req[r2].saved # 0)
      /\ req[r1].resp.status = 201 =>
           /\ req[r2].saved = 0
           /\ StepsOf(r2) \cap MailSteps = {}
           /\ req[r2].resp.status \in {400, 409, 500}
           /\ req[r2].resp.status = 409 <=> req[r2].caught.code = 11000
           /\ req[r2].resp.status = 409 => req[r2].resp.code = "DUPLICATE_ENTRY"
           /\ req[r2].resp.status = 400 <=> req[r2].caught.name = "ValidationError"
           /\ req[r2].resp.status = 500 <=> req[r2].caught = StorageError

\* two requests raced to the save: one was answered 201, the other 409
C5_Witness ==
  \E r1, r2 \in Reqs :
    /\ Racing(r1, r2) /\ Ended(r1) /\ Ended(r2)
    /\ req[r1].resp.status = 201
    /\ req[r2].resp.status = 409 /\ req[r2].caught.code = 11000

\* C6, as the specification states it: a request to POST /api/route whose
\* handlers have ended has been answered, with one of the statuses that
\* POST /send answers.
C6_ApiRouteAnswered ==
  \A r \in Reqs :
    (req[r].via = "/api/route" /\ req[r].pc \in {"done", "hung"}) =>
      req[r].resp.status \in {201, 400, 409, 500}

\* the store holds nothing but what the request r may have saved itself: it
\* was empty when the request was submitted
WasEmptyFor(r) ==
  \/ students = <<>>
  \/ Len(students) = 1 /\ req[r].saved = 1

\* C7, as the specification states it: the sample form, submitted to POST
\* /send on an empty store that answers, ends with 201 and one stored record
\* with email ann@x.com and status pending.
C7_SampleCreated ==
  \A r \in Reqs :
    (/\ Sent(r) /\ Ended(r) /\ req[r].form = "AnnForm" /\ WasEmptyFor(r)
     /\ req[r].caught # StorageError) =>
      /\ req[r].resp.status = 201
      /\ Len(students) = 1
      /\ students[1].email = <<"a","n","n","@","x",".","c","o","m">>
      /\ students[1].status = "pending"

\* C7, amended: the sample form, submitted to POST /send on an empty store
\* that answers the duplicate query, ends with 400 "Validation failed" and
\* the one error "Please provide a complete address", and nothing is stored:
\* the address "1 Main St" has nine characters and the schema asks for ten.
C7_SampleRejected ==
  \A r \in Reqs :
    (/\ Sent(r) /\ Ended(r) /\ req[r].form = "AnnForm" /\ WasEmptyFor(r)
     /\ req[r].caught # StorageError) =>
      /\ req[r].resp.status = 400
      /\ req[r].resp.message = "Validation failed"
      /\ req[r].resp.errors = <<"Please provide a complete address">>
      /\ req[r].steps = <<"validate", "findOne", "save", "respond">>
      /\ students = <<>>

\* the sample form went through validation, query and save on an empty store
\* and was answered
C7_Witness ==
  \E r \in Reqs :
    /\ Sent(r) /\ Ended(r) /\ req[r].form = "AnnForm"
    /\ students = <<>>
    /\ "save" \in StepsOf(r)

\* absent, or empty after trimming
IsBlank(v) == v.t = "undef" \/ (v.t = "str" /\ trim(v.s) = <<>>)

\* C8, as the specification states it: a request to POST /send whose form
\* lacks required fields is answered 400 with the message of every missing
\* field in the list.
C8_EveryMissingFieldListed ==
  \A r \in Reqs :
    LET missing == { f \in Range(RequiredFields) :
                       IsBlank(Form[req[r].form][f]) }
    IN (Sent(r) /\ Ended(r) /\ missing # {}) =>
         /\ req[r].resp.status = 400
         /\ \A f \in missing :
              RequiredMessage[f] \in Range(req[r].resp.errors)

\* C9: validation of a form with a parseable date of birth reports the age
\* error exactly when the time since birth is less than 16 times 365.25 days
\* or at least 101 times 365.25 days: 15 and 101 fail, 16 and 100 pass.
C9_AgeBounds ==
  [][\A r \in Reqs, n \in FormNames :
       (/\ req'[r].via = "/send" /\ req'[r].form = n
        /\ SendReceive(r, n)
        /\ ~LogThrows(Form[n])
        /\ ~Validation[n][now].threw
        /\ Truthy(SanitizedData[n].dateOfBirth)
        /\ ~BirthDate[n].nan)
       => LET since == now - BirthDate[n].t
              reported == /\ req'[r].pc = "done"
                          /\ AgeMessage \in Range(req'[r].resp.errors)
          IN reported <=> (since < 16 * 1461 \/ since >= 101 * 1461)]_vars

\* a form born sixteen years ago to the day has passed validation and a form
\* that turned 101 has been answered with the age error
C9_Witness ==
  \E r1, r2 \in Reqs :
    /\ Sent(r1) /\ req[r1].form = "Sixteen" /\ "findOne" \in StepsOf(r1)
    /\ Sent(r2) /\ req[r2].form = "AlmostHundredOne" /\ Ended(r2)
    /\ req[r2].resp.status = 400
    /\ req[r2].resp.errors = <<AgeMessage>>

\* C10, as the specification states it: when the duplicate query of a request
\* returns while one stored record has the request's email and another its
\* idnumber, the conflict message cites the email.
C10_EmailTakesPrecedence ==
  [][\A r \in Reqs :
       (/\ req[r].pc = "query"
        /\ QueryReturn(r)
        /\ EmailStored(QueryEmail[req[r].form])
        /\ IdStored(QueryId[req[r].form]))
       => req'[r].resp.message =
            "A student with this email already exists"]_vars

\* trimmed and stripped of < > " '
Normalize(s) == trim(RemoveChars(s, UnsafeChars))

TextFields ==
  {"firstName", "lastName", "email", "phone", "idnumber", "course",
   "address", "city", "zipCode", "emergencyContact", "emergencyPhone"}

\* the normalized input of each form: every text field trimmed and stripped,
\* the email lower-cased, the date of birth as the date it denotes
NormalizedInput ==
  Table([n \in FormNames |->
    [f \in TextFields \cup {"dateOfBirth"} |->
       IF Form[n][f].t # "str" THEN NaN
       ELSE IF f = "dateOfBirth" THEN ParseDate(Normalize(Form[n][f].s))
       ELSE IF f = "email" THEN toLowerCase(Normalize(Form[n][f].s))
       ELSE Normalize(Form[n][f].s)]])

\* C11: for every request that POST /send answered 201, the lookup of the
\* returned studentId finds a record, and each of its fields equals the
\* normalized input: trimmed, stripped of < > " ', the email lower-cased.
C11_RoundTrip ==
  \A r \in Reqs :
    (Sent(r) /\ Ended(r) /\ req[r].resp.status = 201) =>
      LET found == findById(students, req[r].resp.data.studentId)
      IN /\ found # {}
         /\ \A i \in found :
              LET got == StudentOk(students[i])
              IN /\ got.status = 200
                 /\ \A f \in TextFields \cup {"dateOfBirth"} :
                      got.student[f] = NormalizedInput[req[r].form][f]

\* a form whose first name is given with markup and padding was answered
\* 201 and is stored under another first name than the one submitted
C11_Witness ==
  \E r \in Reqs :
    /\ Sent(r) /\ Ended(r) /\ req[r].resp.status = 201
    /\ req[r].form = "BobOk"
    /\ students[req[r].saved].firstName = <<"B","o","b">>
    /\ students[req[r].saved].firstName # Form["BobOk"].firstName.s

\* the steps of POST /send, in the order of the handler
Pipeline ==
  <<"validate", "findOne", "save", "createTransporter", "sendMail:student",
    "sendMail:admin", "respond">>
Position(step) == CHOOSE k \in 1..Len(Pipeline) : Pipeline[k] = step

\* the steps of a request so far respect the order of the handler
StepsInOrder(r) ==
  LET steps == req[r].steps
  IN /\ \A i, j \in 1..Len(steps) :
          i < j => Position(steps[i]) < Position(steps[j])
     /\ "findOne" \in StepsOf(r) =>
          /\ "validate" \in StepsOf(r)
          /\ \E t \in NowStart..now :
               ~Validation[req[r].form][t].threw
               /\ Validation[req[r].form][t].errors = <<>>
     /\ "save" \in StepsOf(r) => "findOne" \in StepsOf(r)
     /\ StepsOf(r) \cap MailSteps # {} =>
          /\ "save" \in StepsOf(r)
          /\ req[r].saved # 0
          /\ "createTransporter" \in StepsOf(r)
     /\ req[r].caught # NoError =>
          /\ Ended(r)
          /\ req[r].steps[Len(req[r].steps)] = "respond"
          /\ StepsOf(r) \cap MailSteps = {}

\* a step that starts the save follows a duplicate query that found nothing,
\* and the steps of an ended request stay as they are
StepsAdvance ==
  \A r \in Reqs :
    /\ (req[r].pc = "query" /\ "save" \in Range(req'[r].steps)) =>
         MatchingStudents(students, QueryEmail[req[r].form],
                          QueryId[req[r].form]) = {}
    /\ (Ended(r) /\ ~Free(r)) => req'[r].steps = req[r].steps

\* C12: within one request the steps run in the order validate, duplicate
\* query, save, notify, each at most once; the save starts only after a
\* validation without errors and a duplicate query that found nothing, the
\* mails only after a successful save, and nothing runs after a failure.
C12_StepOrder ==
  /\ [](\A r \in Reqs : Sent(r) => StepsInOrder(r))
  /\ [][StepsAdvance]_vars

\* a request went through every step, both mails included
C12_Witness ==
  \E r \in Reqs :
    /\ Sent(r) /\ Ended(r)
    /\ req[r].steps = Pipeline

InFlight(r) == req[r].pc \in {"query", "saving", "mailing"}
Outcomes == {201, 400, 409, 500}

\* the response of a request: none while it is in flight, one of the four
\* outcomes once it has ended, sent once
OneOutcome(r) ==
  /\ InFlight(r) => (req[r].resp = NoResponse /\ "respond" \notin StepsOf(r))
  /\ Ended(r) =>
       /\ req[r].resp.status \in Outcomes
       /\ Cardinality({ i \in 1..Len(req[r].steps) :
                          req[r].steps[i] = "respond" }) = 1

\* C13: every request to POST /send ends in exactly one of the outcomes 201,
\* 400, 409 and 500: while its store calls and mails settle, a response is
\* eventually sent; it is sent once and never replaced.
C13_OneTerminalOutcome ==
  /\ [](\A r \in Reqs : Sent(r) => OneOutcome(r))
  /\ [][\A r \in Reqs : (Ended(r) /\ ~Free(r)) => req'[r].resp = req[r].resp]_vars
  /\ \A r \in Reqs : (Sent(r) /\ InFlight(r)) ~> (Sent(r) /\ Ended(r))

\* a request that waited for a mail has been answered while another request
\* is still in flight
C13_Witness ==
  \E r1, r2 \in Reqs :
    /\ Sent(r1) /\ Ended(r1) /\ req[r1].mail.student # "none"
    /\ Sent(r2) /\ InFlight(r2)

Listing == get.pc # "idle" /\ get.route = "/api/students"

\* C14, as the specification states it: a listing request uses page 1 and
\* size 20 when the caller gives none; its find returns a page of at most
\* size records, those at offset (page - 1) * size of the matching records in
\* order, and its response reports the count of the matching records and
\* ceil(total / size) pages, whatever page and limit the caller gives.
C14_Pagination ==
  Listing =>
    LET page == get.page
        size == get.limit
        offset == (page - 1) * size
    IN /\ get.pc = "find" =>
            /\ get.query.page = Undef => page = 1
            /\ get.query.limit = Undef => size = 20
            /\ ENABLED ListFindReturn
       /\ get.pc = "count" =>
            /\ Len(get.found) <= size
            /\ \E order \in SortedMatches(students, get.query) :
                 /\ Len(get.found) <= Len(order) - offset
                 /\ \A k \in 1..Len(get.found) :
                      get.found[k] = students[order[offset + k]]

\* contains the text, letters compared without case
ContainsText(s, t) ==
  \E i \in 1..(Len(s) - Len(t) + 1) :
    \A j \in 1..Len(t) : ToLowerChar(t[j]) = ToLowerChar(s[i + j - 1])

\* C15, as the specification states it: every record a listing returns has
\* the course of the course filter, the status of the status filter, and the
\* search text, as it is written, inside its first name, last name, email or
\* course, letters compared without case.
C15_OnlyMatchingRecords ==
  (Listing /\ get.pc = "count") =>
    \A k \in 1..Len(get.found) :
      LET rec == get.found[k]
          q == get.query
      IN /\ Truthy(q.course) => rec.course = q.course.s
         /\ Truthy(q.status) => StatusText[rec.status] = q.status.s
         /\ Truthy(q.search) =>
              \E f \in SearchedFields : ContainsText(rec[f], q.search.s)

\* C16, as the specification states it: a request that started both mails is
\* answered 201 only when both have settled.
C16_AnsweredAfterBothSettle ==
  \A r \in Reqs :
    (/\ Sent(r) /\ Ended(r) /\ req[r].resp.status = 201
     /\ "sendMail:student" \in StepsOf(r) /\ "sendMail:admin" \in StepsOf(r))
    => \A w \in MailNames : req[r].mail[w] \in {"sent", "failed"}

\* C17, as the specification states it: what sanitizeInput returns for a
\* text neither begins nor ends with whitespace, has none of < > " ', and is
\* returned unchanged by a second call.
C17_SanitizedAndIdempotent ==
  (text.called /\ text.input.t = "str") =>
    LET out == text.output.s
    IN /\ out # <<>> => (~IsSpace(out[1]) /\ ~IsSpace(out[Len(out)]))
       /\ Range(out) \cap UnsafeChars = {}
       /\ sanitizeInput(text.output) = text.output

\* C18, as the specification states it: a request to POST /send that the
\* store did not fail is never answered 500; a throw of the validation is the
\* only other way to the catch block's last branch.
C18_ContentNeverServerError ==
  \A r \in Reqs :
    (Sent(r) /\ Ended(r) /\ req[r].caught # StorageError) =>
      /\ req[r].resp.status # 500
      /\ req[r].caught # TypeError

\* a request whose save failed, and not by a unique index
SaveFailed(r) ==
  /\ Sent(r) /\ Ended(r) /\ "save" \in StepsOf(r)
  /\ req[r].caught # NoError
  /\ req[r].caught.code # 11000

\* C19, as the specification states it: a request whose save failed for
\* another reason than a uniqueness violation, a rejection by the schema
\* included, is answered with the 500 server error and has stored nothing.
C19_SaveFailureIsServerError ==
  \A r \in Reqs :
    SaveFailed(r) =>
      /\ req[r].resp.status = 500
      /\ req[r].resp.code = "INTERNAL_ERROR"
      /\ req[r].saved = 0

\* C19, amended: a request whose save failed for another reason than a
\* uniqueness violation has stored nothing; it is answered 400 "Validation
\* failed" with the schema's messages when the schema rejected the document,
\* and with the 500 server error otherwise.
C19_SaveFailureOutcome ==
  /\ [](\A r \in Reqs :
          SaveFailed(r) =>
            /\ req[r].saved = 0
            /\ StepsOf(r) \cap MailSteps = {}
            /\ IF req[r].caught.name = "ValidationError"
               THEN /\ req[r].resp.status = 400
                    /\ req[r].resp.message = "Validation failed"
                    /\ req[r].resp.errors = req[r].caught.messages
                    /\ req[r].resp.errors # <<>>
               ELSE /\ req[r].resp.status = 500
                    /\ req[r].resp.code = "INTERNAL_ERROR")
  /\ [][\A r \in Reqs :
          (req[r].pc = "saving" /\ req'[r].caught # NoError)
          => students' = students]_vars

\* one request's save was rejected by the schema and answered 400, another's
\* failed in the store and was answered 500
C19_Witness ==
  \E r1, r2 \in Reqs :
    /\ SaveFailed(r1) /\ req[r1].caught.name = "ValidationError"
    /\ req[r1].resp.status = 400
    /\ SaveFailed(r2) /\ req[r2].caught = StorageError
    /\ req[r2].resp.status = 500

\* C20: every stored record has a course of the catalog, and a request whose
\* course, trimmed and stripped, is not in the catalog has stored nothing and
\* is not answered 201.
C20_CourseInCatalog ==
  /\ \A i \in 1..Len(students) : students[i].course \in CourseCatalog
  /\ \A r \in Reqs :
       (Sent(r) /\ NormalizedInput[req[r].form].course \notin CourseCatalog)
       => (req[r].saved = 0 /\ req[r].resp.status # 201)

\* a form with a course outside the catalog passed the validation and the
\* duplicate query, and its save was rejected
C20_Witness ==
  \E r \in Reqs :
    /\ Sent(r) /\ Ended(r) /\ req[r].form = "BadCourse"
    /\ "save" \in StepsOf(r)
    /\ req[r].resp.status = 400
    /\ req[r].resp.errors = <<"Please select a valid course">>
    /\ Len(students) > 0

\* the body without the fields that the handler does not copy
WithoutExtras(body) ==
  [body EXCEPT !.status = Undef, !.enrollmentDate = Undef, !._id = Undef]

\* the document each form gives when it is submitted without those fields
PlainDoc ==
  Table([n \in FormNames |-> NewStudent(Sanitized(WithoutExtras(Form[n])))])

\* the store after a step holds every record it held, as it was
StoreOnlyGrows ==
  \/ students' = students
  \/ /\ Len(students') = Len(students) + 1
     /\ SubSeq(students', 1, Len(students)) = students

\* C21: whatever requests the endpoints serve, a stored record is never
\* removed and never changed, and its status is pending; the record of a
\* submission is the one the same body gives without status, enrollmentDate
\* and _id, under an identity of the store's choosing; and a step of the
\* listing, lookup or health endpoint leaves the store as it was.
C21_RecordsKept ==
  /\ [](/\ \A i \in 1..Len(students) :
             students[i].status = "pending" /\ students[i]._id = i
        /\ \A r \in Reqs :
             req[r].saved # 0 =>
               students[req[r].saved] =
                 StoredDocument(PlainDoc[req[r].form], req[r].saved,
                                students[req[r].saved].createdAt))
  /\ [][StoreOnlyGrows]_vars
  /\ [][get' # get => students' = students]_vars

\* the submission that asked for the status approved is stored beside
\* another record, and a listing of the approved records has since been
\* answered with none
C21_Witness ==
  /\ Len(students) = 2
  /\ \E r \in Reqs :
       /\ Sent(r) /\ Ended(r) /\ req[r].form = "BobOk" /\ req[r].saved # 0
       /\ Truthy(Form[req[r].form].status)
       /\ Truthy(Form[req[r].form].enrollmentDate)
       /\ Truthy(Form[req[r].form]._id)
  /\ get.pc = "done" /\ get.route = "/api/students"
  /\ get.query.status = Str(StatusText.approved)
  /\ get.resp.status = 200 /\ get.resp.students = <<>>
  /\ get.resp.pagination.total = 0

====
